---- MODULE Spec2Model ----
(***************************************************************************)
(* A model of ocp_tessellate: the converter's instance table               *)
(* (OcpConverter.get_instance), the dispatch of to_ocp, to_assembly, the   *)
(* two passes of tessellate_group, BoundingBox and combined_bb.            *)
(*                                                                         *)
(* Conventions.  An optional Python value is a sequence of length 0 or 1:  *)
(* None is <<>>, a present value v is <<v>>.  Python lists are sequences;  *)
(* a Python index i is the TLA+ index i + 1, and refs stay 0-based as in   *)
(* the code.  A placement is a rigid transform of the form                 *)
(* p |-> a * p + (t, 0, 0) with a = 1 (no rotation) or a = -1 (half turn   *)
(* about the z axis), so that placements do not commute.                   *)
(***************************************************************************)
EXTENDS Integers, Sequences, FiniteSets, TLC

VARIABLES
    instances,   \* OcpConverter.instances: sequence of <<obj2, cache_id>>
    results,     \* history of get_instance calls (SpecIntern)
    pc,          \* position of the to_assembly / tessellate_group run
    args,        \* arguments of the to_assembly call
    assembly,    \* what to_assembly returned: [group, instances]
    meshed_instances, \* tessellate_group: list of meshes
    shapes,      \* tessellate_group: the collected tree with its bb entries
    overall_bb,  \* tessellate_group: the running global bounding box
    trace,       \* calls made so far: handlers run and mesher invocations
    raised,      \* the exception that ended the run, or None
    unify_in,    \* SpecUnify: the arguments objs and kind of unify
    unify_out,   \* SpecUnify: the shape unify goes on with
    race,        \* SpecRace: the get_instance calls under way, one per thread
    update_in,   \* SpecUpdate: the box and the arguments of BoundingBox.update
    update_out,  \* SpecUpdate: the box after the call and the exception raised
    cache,       \* SpecCache: the cache of bounding_box, key -> box
    bb_calls,    \* SpecCache: the bounding_box calls made, with their results
    names_in,    \* SpecNames: argument of make_unique
    names_out,   \* SpecNames: its result
    fold_in,     \* SpecFold: argument of combined_bb
    fold_out     \* SpecFold: its result and the tree it leaves behind

\* the variables of the specifications of single functions
other_vars == <<unify_in, unify_out, race, update_in, update_out, cache,
               bb_calls>>

vars == <<instances, results, pc, args, assembly, meshed_instances, shapes,
          overall_bb, trace, raised, names_in, names_out, fold_in, fold_out,
          other_vars>>

----------------------------------------------------------------------------
(* Bounds of the model *)

NGeom == 2        \* distinct geometries (TShapes)
MaxT == 1         \* largest translation of an input placement, in units of Step
MaxCalls == 3     \* get_instance calls in one SpecIntern run
MaxObjs == 2      \* objects passed to one to_assembly call
MaxItems == 2     \* elements of one list, compound, dict or assembly
MaxSiblings == 3  \* objects of one call in which some values are skipped
MaxParts == 2     \* parts of one group of a tree given to combined_bb
MaxNames == 3     \* names in one list given to make_unique
HashSpace == 3    \* number of distinct digests (small, so that digests collide)

Step == 10        \* length of one translation unit

None == <<>>
Some(v) == <<v>>
IsNone(o) == o = <<>>
Val(o) == o[1]

Min2(a, b) == IF a <= b THEN a ELSE b
Max2(a, b) == IF a >= b THEN a ELSE b
Abs(a) == IF a < 0 THEN -a ELSE a

----------------------------------------------------------------------------
(* Placements (TopLoc_Location) and shapes (TopoDS_Shape) *)

\* TopLoc_Location(gp_Trsf())
identity_location == [a |-> 1, t |-> 0]

\* l1 * l2: apply l2, then l1
mul_locations(l1, l2) == [a |-> l1.a * l2.a, t |-> l1.a * l2.t + l1.t]

\* the translation negated, the rotation kept
Inverted_negated(l) == [a |-> l.a, t |-> -l.t]

\* loc.Inverted()
Inverted(l) == [a |-> l.a, t |-> -(l.a * l.t)]

\* obj.Moved(loc): the same TShape with the placement loc * obj.Location()
Moved(obj, l) == [g |-> obj.g, loc |-> mul_locations(l, obj.loc)]

Geoms == 1..NGeom
Locs == {[a |-> s, t |-> k * Step] : s \in {1, -1}, k \in 0..MaxT}
Solids == {[g |-> g, loc |-> l] : g \in Geoms, l \in Locs}

\* BinTools.Write_s: the bytes of a shape, its placement included
serialize(obj) ==
    (obj.g * 2 + (IF obj.loc.a = 1 THEN 0 ELSE 1)) * 1000 + obj.loc.t

RECURSIVE sha_update(_, _, _)
sha_update(h, objs, i) ==
    IF i > Len(objs) THEN h
    ELSE sha_update((h * 7 + serialize(objs[i])) % HashSpace, objs, i + 1)

\* sha256 over the serialized shapes, in order
create_cache_id(objs) == sha_update(0, objs, 1)

----------------------------------------------------------------------------
(* Scene nodes (OcpObject, OcpGroup) *)

OcpObject(kind, ref, obj, name, loc, color, width, cache_id) ==
    [t |-> "object", kind |-> kind, ref |-> ref, obj |-> obj, name |-> name,
     loc |-> loc, color |-> color, width |-> width, cache_id |-> cache_id,
     objects |-> <<>>]

OcpGroup(objs, name, loc) ==
    [t |-> "group", kind |-> "", ref |-> None, obj |-> None, name |-> name,
     loc |-> loc, color |-> None, width |-> None, cache_id |-> None,
     objects |-> objs]

----------------------------------------------------------------------------
(* OcpConverter.get_instance *)

\* index (1-based) of the first entry whose geometry equals obj2, or 0
RECURSIVE find_instance(_, _, _)
find_instance(table, obj2, i) ==
    IF i > Len(table) THEN 0
    ELSE IF table[i][1] = obj2 THEN i
    ELSE find_instance(table, obj2, i + 1)

\* a lookup keyed by the cache id instead of the geometry
RECURSIVE find_by_cache_id(_, _, _)
find_by_cache_id(table, cache_id, i) ==
    IF i > Len(table) THEN 0
    ELSE IF table[i][2] = cache_id THEN i
    ELSE find_by_cache_id(table, cache_id, i + 1)

\* obj.Moved(loc.Inverted()): the shape with its placement removed
Normalized(obj) == Moved(obj, Inverted(obj.loc))

get_instance_by_cache_id(table, obj, kind, name, color, cache_id) ==
    LET loc == obj.loc
        obj2 == Normalized(obj)
        hit == find_by_cache_id(table, cache_id, 1)
        ref == IF hit > 0 THEN hit - 1 ELSE Len(table)
    IN  [instances |-> IF hit > 0 THEN table
                        ELSE Append(table, <<obj2, cache_id>>),
         is_instance |-> hit > 0,
         ocp_obj |-> OcpObject(kind, Some(ref), None, name, Some(loc), color, None,
                               Some(cache_id))]

get_instance_unnormalized(table, obj, kind, name, color, cache_id) ==
    LET loc == obj.loc
        obj2 == Normalized(obj)
        hit == find_instance(table, obj, 1)
        ref == IF hit > 0 THEN hit - 1 ELSE Len(table)
    IN  [instances |-> IF hit > 0 THEN table
                        ELSE Append(table, <<obj2, cache_id>>),
         is_instance |-> hit > 0,
         ocp_obj |-> OcpObject(kind, Some(ref), None, name, Some(loc), color, None,
                               Some(cache_id))]

get_instance_refresh(table, obj, kind, name, color, cache_id) ==
    LET loc == obj.loc
        obj2 == Normalized(obj)
        hit == find_instance(table, obj2, 1)
        ref == IF hit > 0 THEN hit - 1 ELSE Len(table)
    IN  [instances |-> IF hit > 0
                        THEN [table EXCEPT ![hit] = <<obj2, cache_id>>]
                        ELSE Append(table, <<obj2, cache_id>>),
         is_instance |-> hit > 0,
         ocp_obj |-> OcpObject(kind, Some(ref), None, name, Some(loc), color, None,
                               Some(cache_id))]

get_instance_ref_after_append(table, obj, kind, name, color, cache_id) ==
    LET loc == obj.loc
        obj2 == Normalized(obj)
        hit == find_instance(table, obj2, 1)
        ref == IF hit > 0 THEN hit - 1 ELSE Len(table) + 1
    IN  [instances |-> IF hit > 0 THEN table
                        ELSE Append(table, <<obj2, cache_id>>),
         is_instance |-> hit > 0,
         ocp_obj |-> OcpObject(kind, Some(ref), None, name, Some(loc), color, None,
                               Some(cache_id))]

\* returns the table after the call, the OcpObject, and whether the geometry
\* was found (is_instance)
get_instance(table, obj, kind, name, color, cache_id) ==
    LET loc == obj.loc
        obj2 == Normalized(obj)
        hit == find_instance(table, obj2, 1)
        ref == IF hit > 0 THEN hit - 1 ELSE Len(table)
    IN  [instances |-> IF hit > 0 THEN table
                        ELSE Append(table, <<obj2, cache_id>>),
         is_instance |-> hit > 0,
         ocp_obj |-> OcpObject(kind, Some(ref), None, name, Some(loc), color, None,
                               Some(cache_id))]

----------------------------------------------------------------------------
(* Names, colors and the methods of OcpGroup *)

\* get_name: the given name, else the object's name or label, else default
get_name(obj_name_attr, name, default) ==
    IF name # None THEN Val(name)
    ELSE IF obj_name_attr # None /\ Val(obj_name_attr) # ""
         THEN Val(obj_name_attr)
    ELSE default

get_kind(typ) ==
    CASE typ = "Edge" -> "edge"
      [] typ = "Face" -> "face"
      [] typ = "Shell" -> "face"
      [] typ = "Solid" -> "solid"
      [] typ = "Vertex" -> "vertex"
      [] typ = "Wire" -> "edge"

LINE_WIDTH == 2
POINT_SIZE == 4

\* alpha values are in percent: 100 is 1.0
default_color == [rgb |-> "default_color", a |-> 100]

\* get_rgba(color, alpha): the color (the default color for None) with the
\* alpha, if one is given, in place of its own
get_rgba(color, alpha) ==
    LET c == IF color = None THEN default_color ELSE Val(color)
    IN  [rgb |-> c.rgb, a |-> IF alpha = None THEN c.a ELSE Val(alpha)]

default_colors(kind) ==
    CASE kind \in {"edge", "wire", "vertex"} -> [rgb |-> "MediumOrchid", a |-> 100]
      [] kind \in {"face", "shell"} -> [rgb |-> "Violet", a |-> 100]
      [] kind = "solid" -> [rgb |-> "(232, 176, 36)", a |-> 100]

\* get_color_for_object for a TopoDS shape (which has no color attribute)
\* and a kind: the given color, else the default of the kind
get_color_for_object(color, alpha, kind) ==
    LET col_a == IF color # None THEN Val(color) ELSE default_colors(kind)
    IN  IF alpha # None THEN [col_a EXCEPT !.a = Val(alpha)] ELSE col_a

group_default_name == "Group"

add(group, node) == [group EXCEPT !.objects = Append(@, node)]

\* how often name occurs among names[1..i-1]
RECURSIVE count_before(_, _, _)
count_before(names, name, i) ==
    IF i <= 1 THEN 0
    ELSE count_before(names, name, i - 1)
         + (IF names[i - 1] = name THEN 1 ELSE 0)

\* one pass over the names: the k-th further occurrence of a name gets the
\* suffix _k, the first occurrence stays as it is
make_unique(names) ==
    [i \in 1..Len(names) |->
        LET k == count_before(names, names[i], i)
        IN  IF k = 0 THEN names[i] ELSE names[i] \o "_" \o ToString(k)]

\* OcpGroup.make_unique_names: the same pass over the direct children
make_unique_names(group) ==
    LET old == [i \in 1..Len(group.objects) |-> group.objects[i].name]
        new == make_unique(old)
    IN  [group EXCEPT !.objects =
            [i \in 1..Len(group.objects) |->
                [group.objects[i] EXCEPT !.name = new[i]]]]

\* OcpGroup.cleanup: a group holding exactly one group collapses into it
RECURSIVE cleanup(_)
cleanup(group) ==
    IF group.t = "group" /\ Len(group.objects) = 1
       /\ group.objects[1].t = "group"
    THEN cleanup(group.objects[1])
    ELSE group

\* CoordAxis: the marker shown for an axis
CoordAxis(name, loc, size) ==
    [t |-> "axis", kind |-> "", ref |-> None, obj |-> None, name |-> name,
     loc |-> Some(loc), color |-> None, width |-> Some(size),
     cache_id |-> None, objects |-> <<>>]

\* CoordSystem: the marker shown for a placement
CoordSystem(name, loc, size) ==
    [t |-> "coord", kind |-> "", ref |-> None, obj |-> None, name |-> name,
     loc |-> Some(loc), color |-> None, width |-> Some(size),
     cache_id |-> None, objects |-> <<>>]

----------------------------------------------------------------------------
(* Input values of to_ocp.  The field t is the outcome of the capability   *)
(* predicates of the dispatch chain:                                       *)
(*   "scalar"    enum, color, int, float, bool, str, numpy value           *)
(*   "other"     none of the recognized capability sets                    *)
(*   "list"      list or tuple that is no ShapeList                        *)
(*   "compound"  mixed compound                                            *)
(*   "dict"      dict                                                      *)
(*   "assembly"  build123d compound with children                          *)
(*   "shape"     TopoDS / build123d / cadquery shape of type typ           *)
(*   "location"  TopLoc_Location or build123d Location                     *)
(*   "plane"     build123d Plane (has wrapped and location)                *)
(*   "gp_plane"  gp_Pln                                                    *)
(*   "workplane" cadquery Workplane without objects                        *)
(*   "axis"      build123d Axis (has wrapped)                              *)
(*   "gp_axis"   gp_Ax1                                                    *)
(*   "iterable"  an Iterable that no handler takes (a set, a generator)    *)
(* name is the value's name or label attribute, color its color attribute. *)

CadValue(t, typ, g, loc, name, color, items, keys) ==
    [t |-> t, typ |-> typ, g |-> g, loc |-> loc, name |-> name,
     color |-> color, items |-> items, keys |-> keys]

Shape(typ, g, loc) ==
    CadValue("shape", typ, g, loc, None, None, <<>>, <<>>)
\* a build123d or cadquery shape with a color attribute
ColoredShape(typ, g, loc, color) ==
    CadValue("shape", typ, g, loc, None, Some(color), <<>>, <<>>)
Scalar == CadValue("scalar", "int", 0, identity_location, None, None, <<>>, <<>>)
Other == CadValue("other", "object", 0, identity_location, None, None, <<>>, <<>>)
\* the values of the location/plane and axis predicates, with placement loc
Frame(t, typ, loc) == CadValue(t, typ, 0, loc, None, None, <<>>, <<>>)
Frames(loc) ==
    {Frame("location", "TopLoc_Location", loc), Frame("plane", "Plane", loc),
     Frame("gp_plane", "gp_Pln", loc), Frame("workplane", "Workplane", loc),
     Frame("axis", "Axis", loc), Frame("gp_axis", "gp_Ax1", loc)}

\* a set or a generator: an Iterable that is no list, tuple or dict
Unhandled == CadValue("iterable", "set", 0, identity_location, None, None, <<>>, <<>>)
ListOf(items) ==
    CadValue("list", "list", 0, identity_location, None, None, items, <<>>)
DictOf(keys, items) ==
    CadValue("dict", "dict", 0, identity_location, None, None, items, keys)
CompoundOf(items) ==
    CadValue("compound", "Compound", 0, identity_location, None, None, items, <<>>)
AssemblyOf(label, loc, items) ==
    CadValue("assembly", "Compound", 0, loc, Some(label), None, items, <<>>)

\* type_name(obj)
type_name(cad_obj) == cad_obj.typ

\* a filter that lets every value through
passes_filter_all(cad_obj) == TRUE

\* the filter of to_ocp: is_wrapped, Iterable or dict, cadquery, build123d,
\* compound, TopoDS_Shape or TopLoc_Location
passes_filter(cad_obj) ==
    cad_obj.t \in {"list", "compound", "dict", "assembly", "shape",
                   "location", "iterable", "plane", "workplane", "axis"}

\* the state threaded through a conversion: the converter's table, the
\* calls made, and the exception raised (None while running)
Raise(st, exc) == [st EXCEPT !.raised = Some(exc)]
Call(st, what) == [st EXCEPT !.trace = Append(@, what)]

NoNode == OcpGroup(<<>>, "", None)

\* str(cad_obj) of a value without a __str__ of its own
str(cad_obj) == "<" \o type_name(cad_obj) \o " object>"

\* the message printed for a value the filter rejects
skip_message(cad_obj, obj_name) ==
    "Skipping object"
        \o (IF obj_name = None THEN "" ELSE " '" \o Val(obj_name) \o "'")
        \o " of type <class '" \o type_name(cad_obj) \o "'>"

\* a unify that registers every kind of shape in the instance table
unify_all_interned(st, objs, kind, name, color, alpha) ==
    LET ocp_obj == objs[1]
        col0 == get_color_for_object(color, None, kind)
        col == IF alpha < 100 THEN [col0 EXCEPT !.a = alpha] ELSE col0
        r == get_instance(st.instances, ocp_obj, kind, name, Some(col),
                          create_cache_id(objs))
    IN  [st |-> [Call(st, "get_instance") EXCEPT !.instances = r.instances],
         node |-> r.ocp_obj, skip |-> FALSE]

\* OcpConverter.unify for one shape that is no compound
unify(st, objs, kind, name, color, alpha) ==
    LET ocp_obj == objs[1]
        col0 == get_color_for_object(color, None, kind)
        col == IF alpha < 100 THEN [col0 EXCEPT !.a = alpha] ELSE col0
    IN  IF kind \in {"solid", "face", "shell"}
        THEN LET r == get_instance(st.instances, ocp_obj, kind, name,
                                   Some(col), create_cache_id(objs))
             IN  [st |-> [Call(st, "get_instance") EXCEPT
                             !.instances = r.instances],
                  node |-> r.ocp_obj, skip |-> FALSE]
        ELSE [st |-> st,
              node |-> OcpObject(kind, None, Some(ocp_obj), name, None,
                                 Some(col),
                                 Some(IF kind = "edge" THEN LINE_WIDTH
                                      ELSE POINT_SIZE),
                                 None),
              skip |-> FALSE]

\* OcpConverter.handle_shapes
handle_shapes(st, cad_obj, obj_name, rgba_color) ==
    LET obj == [g |-> cad_obj.g, loc |-> cad_obj.loc]
        typ == type_name(cad_obj)
        name == get_name(cad_obj.name, obj_name, typ)
    IN  unify(Call(st, "handle_shapes"), <<obj>>, get_kind(typ), name,
              rgba_color, 100)

\* OcpConverter.handle_locations_planes with helper_scale = 1
handle_locations_planes(st, cad_obj, obj_name, rgba_color) ==
    LET def_name == CASE cad_obj.t \in {"plane", "gp_plane"} -> "Plane"
                      [] cad_obj.t = "workplane" -> "Workplane"
                      [] OTHER -> "Location"
    IN  [st |-> Call(st, "handle_locations_planes"),
         node |-> CoordSystem(get_name(cad_obj.name, obj_name, def_name),
                              cad_obj.loc, 1),
         skip |-> FALSE]

\* OcpConverter.handle_axis with helper_scale = 1
handle_axis(st, cad_obj, obj_name, rgba_color) ==
    [st |-> Call(st, "handle_axis"),
     node |-> CoordAxis(get_name(cad_obj.name, obj_name, "Axis"),
                        cad_obj.loc, 1),
     skip |-> FALSE]

\* a check of the names alone
arity_error_names_only(cad_objs, names, colors, alphas) ==
    IF names # None /\ Len(Val(names)) # Len(cad_objs)
    THEN Some("Length of names does not match the number of objects")
    ELSE None

\* the length check of names, alphas and colors, in the order of the code:
\* the message of the ValueError raised, or None
arity_error(cad_objs, names, colors, alphas) ==
    IF names # None /\ Len(Val(names)) # Len(cad_objs)
    THEN Some("Length of names does not match the number of objects")
    ELSE IF alphas # None /\ Len(Val(alphas)) # Len(cad_objs)
    THEN Some("Length of alphas does not match the number of objects")
    ELSE IF colors # None /\ Len(Val(colors)) # Len(cad_objs)
    THEN Some("Length of colors does not match the number of objects")
    ELSE None

RECURSIVE to_ocp(_, _, _, _, _)
RECURSIVE to_ocp_loop(_, _, _, _, _, _)
RECURSIVE dispatch(_, _, _, _)
RECURSIVE handle_list_tuple(_, _, _, _, _, _)
RECURSIVE handle_compound(_, _, _, _, _)
RECURSIVE handle_dict(_, _, _, _, _)

\* handle_list_tuple: the loop over the elements from element i on, then
\* make_unique_names().cleanup()
handle_list_tuple(st, cad_obj, obj_name, rgba_color, ocp_obj, i) ==
    IF i > Len(cad_obj.items)
    THEN [st |-> st, node |-> cleanup(make_unique_names(ocp_obj)),
          skip |-> FALSE]
    ELSE LET obj == cad_obj.items[i]
             name == get_name(cad_obj.name, obj_name, type_name(obj))
             next(result) ==
                 IF result.st.raised # None THEN result
                 ELSE handle_list_tuple(
                          result.st, cad_obj, obj_name, rgba_color,
                          add(ocp_obj, cleanup(result.node)), i + 1)
         IN  next(to_ocp(st, <<obj>>, Some(<<name>>), Some(<<rgba_color>>),
                         None))

\* handle_compound: the loop over the elements, then make_unique_names()
handle_compound(st, cad_obj, rgba_color, ocp_obj, i) ==
    IF i > Len(cad_obj.items)
    THEN [st |-> st, node |-> make_unique_names(ocp_obj), skip |-> FALSE]
    ELSE LET next(result) ==
                 IF result.st.raised # None THEN result
                 ELSE handle_compound(result.st, cad_obj, rgba_color,
                                      add(ocp_obj, cleanup(result.node)),
                                      i + 1)
         IN  next(to_ocp(st, <<cad_obj.items[i]>>, None,
                         Some(<<rgba_color>>), None))

\* a loop over the entries that goes on after a failed entry
handle_dict_swallow(st, cad_obj, rgba_color, ocp_obj, i) ==
    IF i > Len(cad_obj.items)
    THEN [st |-> st, node |-> ocp_obj, skip |-> FALSE]
    ELSE LET next(result) ==
                 IF result.st.raised # None
                 THEN handle_dict([result.st EXCEPT !.raised = None], cad_obj,
                                  rgba_color, ocp_obj, i + 1)
                 ELSE handle_dict(result.st, cad_obj, rgba_color,
                                  add(ocp_obj, cleanup(result.node)), i + 1)
         IN  next(to_ocp(st, <<cad_obj.items[i]>>, Some(<<cad_obj.keys[i]>>),
                         Some(<<rgba_color>>), None))

\* handle_dict: the loop over the entries; the group is returned as built
handle_dict(st, cad_obj, rgba_color, ocp_obj, i) ==
    IF i > Len(cad_obj.items)
    THEN [st |-> st, node |-> ocp_obj, skip |-> FALSE]
    ELSE LET next(result) ==
                 IF result.st.raised # None THEN result
                 ELSE handle_dict(result.st, cad_obj, rgba_color,
                                  add(ocp_obj, cleanup(result.node)), i + 1)
         IN  next(to_ocp(st, <<cad_obj.items[i]>>, Some(<<cad_obj.keys[i]>>),
                         Some(<<rgba_color>>), None))

\* the body of the loop of to_ocp for one object: the priority chain
dispatch(st, cad_obj, obj_name, rgba_color) ==
    IF cad_obj.t = "scalar"
    THEN [st |-> st, node |-> NoNode, skip |-> TRUE]
    ELSE IF ~passes_filter(cad_obj)
    THEN [st |-> Call(st, skip_message(cad_obj, obj_name)), node |-> NoNode,
          skip |-> TRUE]
    ELSE
    LET color == IF rgba_color # None
                 THEN Some(get_rgba(rgba_color, None))
                 ELSE IF cad_obj.color # None
                 THEN Some(get_rgba(cad_obj.color, None))
                 ELSE rgba_color
    IN  CASE cad_obj.t = "list" ->
                handle_list_tuple(
                    Call(st, "handle_list_tuple"), cad_obj, obj_name, color,
                    OcpGroup(<<>>, get_name(cad_obj.name, obj_name, "List"),
                             None), 1)
          [] cad_obj.t = "compound" ->
                \* cad_obj = list(cad_obj): the name of the compound is lost
                handle_compound(
                    Call(st, "handle_compound"), cad_obj, color,
                    OcpGroup(<<>>, get_name(None, obj_name, "Compound"),
                             None), 1)
          [] cad_obj.t = "dict" ->
                handle_dict(
                    Call(st, "handle_dict"), cad_obj, color,
                    OcpGroup(<<>>, get_name(cad_obj.name, obj_name, "Dict"),
                             None), 1)
          [] cad_obj.t = "assembly" ->
                \* the first of the two calls passes five arguments to a
                \* method that takes six
                [st |-> Raise(st, "TypeError: handle_build123d_assembly() missing 1 required positional argument: 'level'"),
                 node |-> NoNode, skip |-> FALSE]
          [] cad_obj.t = "shape" ->
                handle_shapes(st, cad_obj, obj_name, color)
          [] cad_obj.t \in {"location", "plane", "gp_plane", "workplane"} ->
                handle_locations_planes(st, cad_obj, obj_name, color)
          [] cad_obj.t \in {"axis", "gp_axis"} ->
                handle_axis(st, cad_obj, obj_name, color)
          [] OTHER ->
                [st |-> Raise(st, "ValueError: Unknown object type: "
                                  \o str(cad_obj)),
                 node |-> NoNode, skip |-> FALSE]

\* for cad_obj, obj_name, rgba_color in zip(cad_objs, names, colors)
to_ocp_loop(st, group, cad_objs, names, colors, i) ==
    IF i > Len(cad_objs) \/ i > Len(names) \/ i > Len(colors)
    THEN [st |-> st, node |-> group, skip |-> FALSE]
    ELSE LET next(r) ==
                 IF r.st.raised # None THEN r
                 ELSE to_ocp_loop(r.st,
                                  IF r.skip THEN group ELSE add(group, r.node),
                                  cad_objs, names, colors, i + 1)
         IN  next(dispatch(st, cad_objs[i], names[i], colors[i]))

\* OcpConverter.to_ocp(*cad_objs, names, colors, alphas) with loc=None
to_ocp(st, cad_objs, names, colors, alphas) ==
    LET err == arity_error(cad_objs, names, colors, alphas)
        n == Len(cad_objs)
        group == OcpGroup(<<>>, group_default_name, Some(identity_location))
    IN  IF err # None
        THEN [st |-> Raise(st, "ValueError: " \o Val(err)),
              node |-> NoNode, skip |-> FALSE]
        ELSE
        LET names1 == IF names = None THEN [i \in 1..n |-> None]
                      ELSE LET u == make_unique(Val(names))
                           IN  [i \in 1..Len(u) |-> Some(u[i])]
            alphas1 == IF alphas = None THEN [i \in 1..n |-> None]
                       ELSE Val(alphas)
            colors1 == IF colors = None THEN [i \in 1..n |-> None]
                       ELSE [i \in 1..Min2(Len(Val(colors)), Len(alphas1)) |->
                                Some(get_rgba(Val(colors)[i], alphas1[i]))]
            unwrap(g1) == IF Len(g1.objects) = 1 /\ g1.objects[1].t = "group"
                          THEN cleanup(g1) ELSE g1
            finish(r) ==
                IF r.st.raised # None THEN r
                ELSE [st |-> r.st,
                      node |-> unwrap(make_unique_names(r.node)),
                      skip |-> FALSE]
        IN  finish(to_ocp_loop(st, group, cad_objs, names1, colors1, 1))

\* to_assembly: a new converter, one to_ocp call, and the list of instances
to_assembly(cad_objs, names, colors, alphas) ==
    LET result(r) ==
            [raised |-> r.st.raised,
             trace |-> r.st.trace,
             converter |-> r.st.instances,
             ocp_group |-> r.node,
             instances |-> [i \in 1..Len(r.st.instances) |->
                              [obj |-> r.st.instances[i][1],
                               cache_id |-> r.st.instances[i][2]]]]
    IN  result(to_ocp([instances |-> <<>>, trace |-> <<>>, raised |-> None],
                      cad_objs, names, colors, alphas))

----------------------------------------------------------------------------
(* BoundingBox and np_bbox *)

\* BoundingBox._calc; center is kept in half units (twice the center)
calc(bb) ==
    LET xsize == bb.xmax - bb.xmin
        ysize == bb.ymax - bb.ymin
        zsize == bb.zmax - bb.zmin
    IN  [xmin |-> bb.xmin, xmax |-> bb.xmax, ymin |-> bb.ymin,
         ymax |-> bb.ymax, zmin |-> bb.zmin, zmax |-> bb.zmax,
         xsize |-> xsize, ysize |-> ysize, zsize |-> zsize,
         center |-> <<2 * bb.xmin + xsize, 2 * bb.ymin + ysize,
                      2 * bb.zmin + zsize>>,
         max |-> Max2(Max2(Max2(Abs(bb.xmin), Abs(bb.xmax)),
                           Max2(Abs(bb.ymin), Abs(bb.ymax))),
                      Max2(Abs(bb.zmin), Abs(bb.zmax)))]

\* BoundingBox(obj) for obj = None (all extents 0), a BoundingBox or a dict
BoundingBox(obj) ==
    IF obj = None
    THEN calc([xmin |-> 0, xmax |-> 0, ymin |-> 0, ymax |-> 0,
               zmin |-> 0, zmax |-> 0])
    ELSE calc(Val(obj))

\* BoundingBox.update(bb, minimize) for a BoundingBox or a dict bb
update(self, bb, minimize) ==
    IF minimize
    THEN calc([xmin |-> Max2(bb.xmin, self.xmin),
               xmax |-> Min2(bb.xmax, self.xmax),
               ymin |-> Max2(bb.ymin, self.ymin),
               ymax |-> Min2(bb.ymax, self.ymax),
               zmin |-> Max2(bb.zmin, self.zmin),
               zmax |-> Min2(bb.zmax, self.zmax)])
    ELSE calc([xmin |-> Min2(bb.xmin, self.xmin),
               xmax |-> Max2(bb.xmax, self.xmax),
               ymin |-> Min2(bb.ymin, self.ymin),
               ymax |-> Max2(bb.ymax, self.ymax),
               zmin |-> Min2(bb.zmin, self.zmin),
               zmax |-> Max2(bb.zmax, self.zmax)])

\* rotate_vectors([n_q], n_p)[0] + n_t for one point
placed(p, loc) == <<loc.a * p[1] + loc.t, loc.a * p[2], p[3]>>

SeqMin(f) == CHOOSE m \in {f[i] : i \in DOMAIN f} :
                \A i \in DOMAIN f : m <= f[i]
SeqMax(f) == CHOOSE m \in {f[i] : i \in DOMAIN f} :
                \A i \in DOMAIN f : m >= f[i]

\* np_bbox(p, t, q): None for no points, else the box of the placed points;
\* loc = None stands for t = q = None
np_bbox(p, loc) ==
    IF Len(p) = 0 THEN None
    ELSE LET v == [i \in 1..Len(p) |->
                      IF loc = None THEN p[i] ELSE placed(p[i], Val(loc))]
         IN  Some([xmin |-> SeqMin([i \in 1..Len(v) |-> v[i][1]]),
                   xmax |-> SeqMax([i \in 1..Len(v) |-> v[i][1]]),
                   ymin |-> SeqMin([i \in 1..Len(v) |-> v[i][2]]),
                   ymax |-> SeqMax([i \in 1..Len(v) |-> v[i][2]]),
                   zmin |-> SeqMin([i \in 1..Len(v) |-> v[i][3]]),
                   zmax |-> SeqMax([i \in 1..Len(v) |-> v[i][3]])])

----------------------------------------------------------------------------
(* tessellate_group *)

\* the vertices of the mesh of a shape, in its local frame
vertices_of(obj) == << <<obj.g, 0, 0>>, <<obj.g + 1, obj.g, 1>> >>

\* tessellate(shape, cache_id, ...): the mesh of one instance
tessellate(shape, cache_id) == [vertices |-> vertices_of(shape)]

\* OcpGroup.collect / OcpObject.collect: the tree of group and leaf records.
\* A leaf has no parts; a leaf with a ref has type "shapes"; no record has a
\* bb entry yet (bb = None stands for an absent key).
RECURSIVE collect(_)
collect(node) ==
    IF node.t = "group"
    THEN [type |-> "group", name |-> node.name, loc |-> node.loc,
          ref |-> None, bb |-> None,
          parts |-> Some([i \in 1..Len(node.objects) |->
                             collect(node.objects[i])])]
    ELSE [type |-> IF node.ref # None THEN "shapes"
                   ELSE IF node.kind = "vertex" THEN "vertices"
                   ELSE "edges",
          name |-> node.name, loc |-> node.loc, ref |-> node.ref,
          bb |-> None, parts |-> None]

\* _add_bb(shapes): returns the annotated record, the running overall_bb
\* and the exception raised, if any
RECURSIVE add_bb(_, _, _)
RECURSIVE add_bb_parts(_, _, _, _, _)

add_bb_parts(parts, i, meshed, bb, exc) ==
    IF i > Len(parts) \/ exc # None
    THEN [parts |-> parts, bb |-> bb, raised |-> exc]
    ELSE LET shape == parts[i]
         IN  IF shape.parts = None
             THEN IF shape.type = "shapes"
                  THEN LET ind == Val(shape.ref)
                       IN  IF ind >= Len(meshed)
                           THEN add_bb_parts(parts, i, meshed, bb,
                                    Some("IndexError: list index out of range"))
                           ELSE LET box == np_bbox(meshed[ind + 1].vertices,
                                                   shape.loc)
                                    parts1 == [parts EXCEPT ![i].bb = Some(box)]
                                IN  IF box = None
                                    THEN add_bb_parts(parts1, i, meshed, bb,
                                             Some("TypeError: exceptions must derive from BaseException"))
                                    ELSE add_bb_parts(parts1, i + 1, meshed,
                                             update(bb, Val(box), FALSE), exc)
                  ELSE add_bb_parts(parts, i + 1, meshed, bb, exc)
             ELSE LET r == add_bb(shape, meshed, bb)
                  IN  add_bb_parts([parts EXCEPT ![i] = r.shapes], i + 1,
                                   meshed, r.bb, r.raised)

add_bb(group, meshed, bb) ==
    LET r == add_bb_parts(Val(group.parts), 1, meshed, bb, None)
    IN  [shapes |-> [group EXCEPT !.parts = Some(r.parts)],
         bb |-> r.bb, raised |-> r.raised]

----------------------------------------------------------------------------
(* combined_bb *)

\* c_bb(shapes, bb) from part i on: returns the box, the parts with their bb
\* entries deleted, and the exception raised, if any.  In a record, bb = None
\* is an absent key, bb = Some(None) the value None.
RECURSIVE c_bb(_, _, _, _)
c_bb(parts, i, bb, exc) ==
    IF i > Len(parts) \/ exc # None
    THEN [bb |-> bb, parts |-> parts, raised |-> exc]
    ELSE LET shape == parts[i]
         IN  IF shape.parts = None
             THEN IF shape.bb = None
                  THEN c_bb(parts, i, bb, Some("KeyError: 'bb'"))
                  ELSE LET sbb == Val(shape.bb)
                           bb1 == IF bb = None
                                  THEN Some(BoundingBox(sbb))
                                  ELSE IF sbb # None
                                  THEN Some(update(Val(bb), Val(sbb), FALSE))
                                  ELSE bb
                       IN  c_bb([parts EXCEPT ![i].bb = None], i + 1, bb1, exc)
             ELSE LET r == c_bb(Val(shape.parts), 1, bb, exc)
                  IN  c_bb([parts EXCEPT ![i].parts = Some(r.parts)], i + 1,
                           r.bb, r.raised)

combined_bb(tree) ==
    LET r == c_bb(Val(tree.parts), 1, None, None)
    IN  [bb |-> r.bb, shapes |-> [tree EXCEPT !.parts = Some(r.parts)],
         raised |-> r.raised]

----------------------------------------------------------------------------
(* SpecIntern: one converter, a sequence of get_instance calls *)

Idle ==
    /\ pc = "idle"
    /\ args = None
    /\ assembly = None
    /\ meshed_instances = <<>>
    /\ shapes = None
    /\ overall_bb = None
    /\ trace = <<>>
    /\ raised = None

NoNames == names_in = None /\ names_out = None
NoUnify == unify_in = None /\ unify_out = None
NoRace == race = None
NoUpdate == update_in = None /\ update_out = None
NoCache == cache = {} /\ bb_calls = <<>>
OthersIdle == NoUnify /\ NoRace /\ NoUpdate /\ NoCache
NoFold == fold_in = None /\ fold_out = None

InitIntern ==
    /\ instances = <<>>
    /\ results = <<>>
    /\ Idle /\ NoNames /\ NoFold /\ OthersIdle

\* unify's call for one solid: get_instance(obj, "solid", name, color,
\* cache_id=create_cache_id(objs))
Intern(obj) ==
    /\ Len(results) < MaxCalls
    /\ LET cache_id == create_cache_id(<<obj>>)
           r == get_instance(instances, obj, "solid", "Solid", None, cache_id)
       IN  /\ instances' = r.instances
           /\ results' = Append(results,
                  [obj |-> obj, cache_id |-> cache_id,
                   ocp_obj |-> r.ocp_obj, is_new |-> ~r.is_instance])
    /\ UNCHANGED other_vars
    /\ UNCHANGED <<pc, args, assembly, meshed_instances, shapes, overall_bb,
                   trace, raised, names_in, names_out, fold_in, fold_out>>

NextIntern == \E obj \in Solids : Intern(obj)

SpecIntern == InitIntern /\ [][NextIntern]_vars

----------------------------------------------------------------------------
(* Claims about the instance table *)

Ref(r) == Val(r.ocp_obj.ref)

\* C1: over any sequence of get_instance calls on one converter, two shapes
\* receive the same ref exactly when their placement-removed geometry is
\* equal, whatever their placements and whatever their cache ids.
C1_DedupByGeometry ==
    \A i, j \in DOMAIN results :
        (Normalized(results[i].obj) = Normalized(results[j].obj))
            <=> (Ref(results[i]) = Ref(results[j]))

\* one geometry at two placements shares a ref, and two geometries whose
\* cache ids collide have different refs
C1_Witness ==
    /\ \E i, j \in DOMAIN results :
        /\ results[i].obj.g = results[j].obj.g
        /\ results[i].obj.loc # results[j].obj.loc
        /\ Ref(results[i]) = Ref(results[j])
    /\ \E i, j \in DOMAIN results :
        /\ results[i].obj.g # results[j].obj.g
        /\ results[i].cache_id = results[j].cache_id
        /\ Ref(results[i]) # Ref(results[j])

\* C2: no two entries of the instance table hold equal placement-removed
\* geometry.
C2_NoDuplicateGeometry ==
    \A i, j \in DOMAIN instances :
        i # j => instances[i][1] # instances[j][1]

\* a geometry referenced twice at a placement other than the identity,
\* beside a second geometry
C2_Witness ==
    /\ Len(instances) = 2
    /\ \E i, j \in DOMAIN results :
        /\ i # j
        /\ results[i].obj = results[j].obj
        /\ results[i].obj.loc # identity_location

\* C3: the instance table is append-only. A call that finds its geometry
\* leaves the table unchanged (is_new false); a call with a new geometry
\* appends exactly one entry at index = previous length (is_new true).
C3_AppendOnly ==
    [][Len(results') = Len(results) + 1 =>
        LET r == results'[Len(results')]
            obj2 == Normalized(r.obj)
        IN  IF \E i \in DOMAIN instances : instances[i][1] = obj2
            THEN instances' = instances /\ ~r.is_new
            ELSE /\ instances' = Append(instances, <<obj2, r.cache_id>>)
                 /\ r.is_new
                 /\ Ref(r) = Len(instances)]_vars

\* a hit whose cache id differs from the stored one, after a miss
C3_Witness ==
    \E i, j \in DOMAIN results :
        /\ i < j
        /\ results[i].is_new /\ ~results[j].is_new
        /\ Ref(results[i]) = Ref(results[j])
        /\ results[i].cache_id # results[j].cache_id
        /\ instances[Ref(results[j]) + 1][2] = results[i].cache_id

\* C20: for every Object returned by get_instance, on a hit and on a miss,
\* moving the geometry stored at its ref by the loc of the Object gives the
\* shape that was passed in.
C20_PlacementRoundTrip ==
    \A i \in DOMAIN results :
        LET r == results[i]
        IN  /\ r.ocp_obj.loc = Some(r.obj.loc)
            /\ Moved(instances[Ref(r) + 1][1], Val(r.ocp_obj.loc)) = r.obj

\* a miss and a hit for shapes whose placement turns and translates
C20_Witness ==
    \E i, j \in DOMAIN results :
        /\ results[i].is_new /\ ~results[j].is_new
        /\ results[i].obj.loc.a = -1 /\ results[i].obj.loc.t # 0
        /\ results[j].obj.loc.a = -1 /\ results[j].obj.loc.t # 0

\* C21: the cache id of interned geometry does not depend on the placement:
\* two Objects with the same ref carry the same cache id, and the cache id
\* stored in an entry of the table is the digest of the stored geometry,
\* whatever the placement of the occurrence that was registered first.
C21_CacheIdPlacementIndependent ==
    /\ \A i, j \in DOMAIN results :
        Ref(results[i]) = Ref(results[j]) =>
            results[i].ocp_obj.cache_id = results[j].ocp_obj.cache_id
    /\ \A k \in DOMAIN instances :
        instances[k][2] = create_cache_id(<<instances[k][1]>>)

----------------------------------------------------------------------------
(* SpecPipeline: to_assembly on bounded arguments, then tessellate_group   *)
(* on what it returned                                                     *)

RECURSIVE Flatten(_)
Flatten(ss) == IF Len(ss) = 0 THEN <<>> ELSE Head(ss) \o Flatten(Tail(ss))

\* the Object leaves of a tree that carry a ref, in depth-first order
RECURSIVE RefLeaves(_)
RefLeaves(node) ==
    IF node.t = "group"
    THEN Flatten([i \in 1..Len(node.objects) |-> RefLeaves(node.objects[i])])
    ELSE IF node.ref # None THEN <<node>> ELSE <<>>

SeqsUpTo(S, n) == UNION {[1..k -> S] : k \in 1..n}
SeqsFrom0(S, n) == UNION {[1..k -> S] : k \in 0..n}
OptionOf(S) == {None} \cup {Some(x) : x \in S}

Red == [rgb |-> "red", a |-> 100]
Blue == [rgb |-> "blue", a |-> 100]
dict_keys(n) == [i \in 1..n |-> "k" \o ToString(i)]

FlatLeaves ==
    {Shape("Solid", g, l) : g \in Geoms, l \in Locs}
        \cup {Shape("Edge", 1, identity_location), Scalar, Other, Unhandled,
              Shape("Vertex", 1, identity_location),
              Shape("Face", NGeom, identity_location),
              ColoredShape("Solid", 1, identity_location, Blue)}
        \cup Frames([a |-> 1, t |-> Step])

ArityLeaves == {Shape("Solid", 1, identity_location), Scalar}

NestLeaves ==
    {Shape("Solid", 1, identity_location),
     Shape("Solid", 1, [a |-> 1, t |-> MaxT * Step]),
     Shape("Solid", NGeom, [a |-> -1, t |-> 0]),
     Shape("Edge", 1, identity_location),
     ColoredShape("Solid", 1, identity_location, Blue),
     Scalar, Unhandled}

\* siblings of one call, some of them values that the filter rejects
SkipLeaves ==
    {Shape("Solid", 1, identity_location), Shape("Edge", 1, identity_location),
     Other}
SiblingNames == [i \in 1..MaxSiblings |-> "n" \o ToString(i)]
SiblingColors ==
    [i \in 1..MaxSiblings |-> IF i % 2 = 1 THEN Some(Red) ELSE Some(Blue)]

Containers(items) ==
    {ListOf(items), CompoundOf(items), DictOf(dict_keys(Len(items)), items),
     AssemblyOf("asm", [a |-> 1, t |-> Step], items)}

Nested1 == UNION {Containers(items) : items \in SeqsUpTo(NestLeaves, MaxItems)}
Nested2 == UNION {{ListOf(<<c>>), DictOf(dict_keys(1), <<c>>)} :
                    c \in {x \in Nested1 : x.t \in {"list", "dict"}}}

CallArgs(cad_objs, names, colors, alphas) ==
    [cad_objs |-> cad_objs, names |-> names, colors |-> colors,
     alphas |-> alphas]

PipelineArgs ==
    {CallArgs(objs, None, None, None) : objs \in SeqsUpTo(FlatLeaves, MaxObjs)}
    \cup {CallArgs(objs, n, c, a) :
            objs \in SeqsUpTo(ArityLeaves, MaxObjs),
            n \in OptionOf(SeqsFrom0({"a"}, MaxObjs)),
            c \in OptionOf(SeqsFrom0({Some(Red)}, MaxObjs)),
            a \in OptionOf(SeqsFrom0({Some(50)}, MaxObjs))}
    \cup {CallArgs(<<c>>, n, None, None) :
            c \in Nested1 \cup Nested2, n \in {None, Some(<<"a">>)}}
    \cup {CallArgs(<<c, Shape("Solid", 1, identity_location)>>, None, None,
                    None) : c \in Nested2}
    \cup UNION {{CallArgs(objs, n, c, None) :
                    n \in {None, Some(SubSeq(SiblingNames, 1, Len(objs)))},
                    c \in {None, Some(SubSeq(SiblingColors, 1, Len(objs)))}} :
                 objs \in SeqsUpTo(SkipLeaves, MaxSiblings)}

InitPipeline ==
    /\ instances = <<>>
    /\ results = <<>>
    /\ pc = "start"
    /\ args \in PipelineArgs
    /\ assembly = None
    /\ meshed_instances = <<>>
    /\ shapes = None
    /\ overall_bb = None
    /\ trace = <<>>
    /\ raised = None
    /\ NoNames /\ NoFold /\ OthersIdle

\* ocp_group, instances = to_assembly(*cad_objs, names=, colors=, alphas=)
ToAssembly ==
    /\ pc = "start"
    /\ LET r == to_assembly(args.cad_objs, args.names, args.colors,
                            args.alphas)
       IN  /\ trace' = r.trace
           /\ instances' = r.converter
           /\ raised' = r.raised
           /\ IF r.raised # None
              THEN pc' = "raised" /\ assembly' = None
              ELSE /\ pc' = "converted"
                   /\ assembly' = Some([group |-> r.ocp_group,
                                        instances |-> r.instances])
    /\ UNCHANGED other_vars
    /\ UNCHANGED <<results, args, meshed_instances, shapes, overall_bb,
                   names_in, names_out, fold_in, fold_out>>

\* tessellate_group(group, instances) up to its first loop
TessellateBegin ==
    /\ pc = "converted"
    /\ pc' = "meshing"
    /\ overall_bb' = Some(BoundingBox(None))
    /\ shapes' = Some(collect(Val(assembly).group))
    /\ meshed_instances' = <<>>
    /\ UNCHANGED other_vars
    /\ UNCHANGED <<instances, results, args, assembly, trace, raised,
                   names_in, names_out, fold_in, fold_out>>

\* a loop that meshes once per leaf of the tree instead of once per instance
MeshStep_per_leaf ==
    /\ pc = "meshing"
    /\ Len(meshed_instances) < Len(RefLeaves(Val(assembly).group))
    /\ LET i == Len(meshed_instances)
           leaf == RefLeaves(Val(assembly).group)[i + 1]
           instance == Val(assembly).instances[Val(leaf.ref) + 1]
           mesh == tessellate(instance.obj, instance.cache_id)
       IN  /\ meshed_instances' = Append(meshed_instances, mesh)
           /\ trace' = Append(trace, "tessellate(" \o ToString(i) \o ")")
    /\ UNCHANGED other_vars
    /\ UNCHANGED <<instances, results, pc, args, assembly, shapes, overall_bb,
                   raised, names_in, names_out, fold_in, fold_out>>

\* one round of for i, instance in enumerate(instances), the mesher
\* returning a mesh
MeshStep ==
    /\ pc = "meshing"
    /\ Len(meshed_instances) < Len(Val(assembly).instances)
    /\ LET i == Len(meshed_instances)
           instance == Val(assembly).instances[i + 1]
           mesh == tessellate(instance.obj, instance.cache_id)
       IN  /\ meshed_instances' = Append(meshed_instances, mesh)
           /\ trace' = Append(trace, "tessellate(" \o ToString(i) \o ")")
    /\ UNCHANGED other_vars
    /\ UNCHANGED <<instances, results, pc, args, assembly, shapes, overall_bb,
                   raised, names_in, names_out, fold_in, fold_out>>

\* a round in which the error of the mesher is recorded and the loop goes on
MeshFail_masked ==
    /\ pc = "meshing"
    /\ Len(meshed_instances) < Len(Val(assembly).instances)
    /\ raised = None
    /\ raised' = Some("MeshComputationError")
    /\ trace' = Append(trace, "tessellate("
                              \o ToString(Len(meshed_instances)) \o ")")
    /\ UNCHANGED other_vars
    /\ UNCHANGED <<instances, results, pc, args, assembly, meshed_instances,
                   shapes, overall_bb, names_in, names_out, fold_in, fold_out>>

\* one round of the loop with the mesher raising
MeshFail ==
    /\ pc = "meshing"
    /\ Len(meshed_instances) < Len(Val(assembly).instances)
    /\ pc' = "raised"
    /\ raised' = Some("MeshComputationError")
    /\ trace' = Append(trace, "tessellate("
                              \o ToString(Len(meshed_instances)) \o ")")
    /\ UNCHANGED other_vars
    /\ UNCHANGED <<instances, results, args, assembly, meshed_instances,
                   shapes, overall_bb, names_in, names_out, fold_in, fold_out>>

\* _add_bb(shapes) and the return of tessellate_group
AddBB ==
    /\ pc = "meshing"
    /\ Len(meshed_instances) = Len(Val(assembly).instances)
    /\ LET r == add_bb(Val(shapes), meshed_instances, Val(overall_bb))
       IN  /\ shapes' = Some(r.shapes)
           /\ overall_bb' = Some(r.bb)
           /\ raised' = r.raised
           /\ pc' = IF r.raised = None THEN "done" ELSE "raised"
    /\ UNCHANGED other_vars
    /\ UNCHANGED <<instances, results, args, assembly, meshed_instances,
                   trace, names_in, names_out, fold_in, fold_out>>

\* combined_bb(shapes) on the tree tessellate_group returned, and once more
\* on the tree the first call left behind; the tree is changed in place
Fold ==
    /\ pc \in {"done", "folded"}
    /\ pc = "folded" => Val(fold_out).raised = None
    /\ LET r == combined_bb(Val(shapes))
       IN  /\ shapes' = Some(r.shapes)
           /\ fold_out' = Some(r)
    /\ pc' = IF pc = "done" THEN "folded" ELSE "refolded"
    /\ UNCHANGED other_vars
    /\ UNCHANGED <<instances, results, args, assembly, meshed_instances,
                   overall_bb, trace, raised, names_in, names_out, fold_in>>

NextPipeline ==
    \/ ToAssembly
    \/ TessellateBegin
    \/ MeshStep
    \/ MeshFail
    \/ AddBB
    \/ Fold

SpecPipeline == InitPipeline /\ [][NextPipeline]_vars

----------------------------------------------------------------------------
(* Claims about to_assembly and tessellate_group *)

\* the solids and faces among the input values, in depth-first order
RECURSIVE InputSolids(_)
InputSolids(cad_objs) ==
    Flatten([i \in 1..Len(cad_objs) |->
        LET v == cad_objs[i]
        IN  IF v.t = "shape"
            THEN IF get_kind(v.typ) \in {"solid", "face"}
                 THEN <<[g |-> v.g, loc |-> v.loc]>> ELSE <<>>
            ELSE IF v.t \in {"list", "compound", "dict"}
            THEN InputSolids(v.items)
            ELSE <<>>])

Returned == pc \in {"converted", "meshing", "done"}

\* C4: every leaf of the returned tree that carries a ref has
\* 0 <= ref < len(instances); instances is index-aligned with the
\* converter's table; instances[ref] holds the leaf's placement-removed
\* geometry; and no ref lookup of the second pass of tessellate_group
\* misses the list of meshes.
C4_RefsResolve ==
    /\ Returned =>
        LET leaves == RefLeaves(Val(assembly).group)
            insts == Val(assembly).instances
            ins == InputSolids(args.cad_objs)
        IN  /\ Len(insts) = Len(instances)
            /\ \A i \in 1..Len(insts) :
                /\ insts[i].obj = instances[i][1]
                /\ insts[i].cache_id = instances[i][2]
            /\ Len(leaves) = Len(ins)
            /\ \A k \in 1..Len(leaves) :
                /\ 0 <= Val(leaves[k].ref)
                /\ Val(leaves[k].ref) < Len(insts)
                /\ insts[Val(leaves[k].ref) + 1].obj = Normalized(ins[k])
                /\ leaves[k].loc = Some(ins[k].loc)
    /\ raised # Some("IndexError: list index out of range")

\* the second pass has run over a nested tree with two leaves that refer to
\* two different instances
C4_Witness ==
    /\ pc = "done"
    /\ args.cad_objs[1].t = "list"
    /\ Len(Val(assembly).instances) = 2
    /\ \E k \in 1..Len(RefLeaves(Val(assembly).group)) :
        Val(RefLeaves(Val(assembly).group)[k].ref) = 1

ArityMismatch ==
    \/ args.names # None /\ Len(Val(args.names)) # Len(args.cad_objs)
    \/ args.colors # None /\ Len(Val(args.colors)) # Len(args.cad_objs)
    \/ args.alphas # None /\ Len(Val(args.alphas)) # Len(args.cad_objs)

\* C5: when names, colors or alphas is supplied with a length different from
\* the number of objects, the call raises a ValueError before any object is
\* classified: no handler has run, the instance table is unchanged and
\* nothing is meshed.
C5_ArityCheckedFirst ==
    (pc # "start" /\ ArityMismatch) =>
        /\ pc = "raised"
        /\ raised \in {Some("ValueError: Length of " \o w
                            \o " does not match the number of objects") :
                        w \in {"names", "colors", "alphas"}}
        /\ trace = <<>>
        /\ instances = <<>>
        /\ assembly = None
        /\ meshed_instances = <<>>

\* two solids, matching names, one color too few
C5_Witness ==
    /\ pc = "raised"
    /\ Len(args.cad_objs) = 2
    /\ \A i \in 1..2 : args.cad_objs[i].t = "shape"
    /\ args.names # None /\ Len(Val(args.names)) = 2
    /\ args.alphas = None
    /\ args.colors # None /\ Len(Val(args.colors)) = 1

TessEvent(i) == "tessellate(" \o ToString(i) \o ")"
IsTessEvent(e) == e \in {TessEvent(i) : i \in 0..(Len(trace) + 1)}

\* C6: tessellate_group invokes the mesher once per instance-table entry,
\* in table order: meshed_instances[i] is the mesh of instances[i], and on
\* return len(meshed_instances) = len(instances), however many leaves
\* refer to an instance.
C6_OneMeshPerInstance ==
    pc \in {"meshing", "done"} =>
        LET insts == Val(assembly).instances
        IN  /\ Len(meshed_instances) <= Len(insts)
            /\ \A i \in 1..Len(meshed_instances) :
                meshed_instances[i] =
                    tessellate(insts[i].obj, insts[i].cache_id)
            /\ SelectSeq(trace, IsTessEvent)
                 = [i \in 1..Len(meshed_instances) |-> TessEvent(i - 1)]
            /\ pc = "done" => Len(meshed_instances) = Len(insts)

\* one geometry at two placements: 1 instance, 2 leaves with ref 0 and
\* different loc, 1 mesh
C6_Witness ==
    /\ pc = "done"
    /\ Len(Val(assembly).instances) = 1
    /\ Len(meshed_instances) = 1
    /\ LET leaves == RefLeaves(Val(assembly).group)
       IN  /\ Len(leaves) = 2
           /\ leaves[1].ref = Some(0) /\ leaves[2].ref = Some(0)
           /\ leaves[1].loc # leaves[2].loc

Extents(bb) == <<bb.xmin, bb.xmax, bb.ymin, bb.ymax, bb.zmin, bb.zmax>>

\* the componentwise min/max over a non-empty sequence of boxes
UnionExtents(boxes) ==
    <<SeqMin([i \in 1..Len(boxes) |-> boxes[i].xmin]),
      SeqMax([i \in 1..Len(boxes) |-> boxes[i].xmax]),
      SeqMin([i \in 1..Len(boxes) |-> boxes[i].ymin]),
      SeqMax([i \in 1..Len(boxes) |-> boxes[i].ymax]),
      SeqMin([i \in 1..Len(boxes) |-> boxes[i].zmin]),
      SeqMax([i \in 1..Len(boxes) |-> boxes[i].zmax])>>

\* the placed box of every leaf with a ref: the vertices of its instance's
\* mesh moved by the leaf's loc
LeafBoxes ==
    LET leaves == RefLeaves(Val(assembly).group)
        insts == Val(assembly).instances
    IN  [k \in 1..Len(leaves) |->
            Val(np_bbox(vertices_of(insts[Val(leaves[k].ref) + 1].obj),
                        leaves[k].loc))]

\* C7: after the second pass of tessellate_group the running global bounding
\* box equals the componentwise union of the placed boxes of all shapes
\* leaves, and of nothing else.
C7_GlobalBoxIsUnionOfLeaves ==
    (pc = "done" /\ Len(LeafBoxes) > 0) =>
        Extents(Val(overall_bb)) = UnionExtents(LeafBoxes)

\* C10: in the tree returned by a top-level conversion the names of the
\* children of every group, at every depth, are pairwise distinct.
RECURSIVE SiblingNamesDistinct(_)
SiblingNamesDistinct(node) ==
    /\ \A i, j \in 1..Len(node.objects) :
        i # j => node.objects[i].name # node.objects[j].name
    /\ \A i \in 1..Len(node.objects) : SiblingNamesDistinct(node.objects[i])

C10_SiblingNamesDistinct ==
    Returned => SiblingNamesDistinct(Val(assembly).group)

\* no group of the tree has exactly one child that is itself a group
RECURSIVE Minimized(_)
Minimized(node) ==
    /\ ~(node.t = "group" /\ Len(node.objects) = 1
          /\ node.objects[1].t = "group")
    /\ \A i \in 1..Len(node.objects) : Minimized(node.objects[i])

\* C11: in the tree returned by a top-level conversion no group, at any
\* depth, has exactly one child that is itself a group.
C11_TreeMinimized ==
    Returned => Minimized(Val(assembly).group)

\* the values that the loop of some to_ocp call of the conversion gets, in
\* depth-first order (the children of an assembly are never reached)
RECURSIVE Dispatched(_)
Dispatched(cad_objs) ==
    Flatten([i \in 1..Len(cad_objs) |->
        <<cad_objs[i]>>
            \o (IF cad_objs[i].t \in {"list", "compound", "dict"}
                THEN Dispatched(cad_objs[i].items) ELSE <<>>)])

IsUnhandled(v) == v.t = "iterable"
Raises(v) == v.t \in {"iterable", "assembly"}

\* the objects of the call up to the first one whose conversion raises
Reached(cad_objs) ==
    {i \in 1..Len(cad_objs) :
        \A j \in 1..(i - 1) :
            Len(SelectSeq(Dispatched(<<cad_objs[j]>>), Raises)) = 0}

\* the indices of the values of a call that match none of the recognized
\* capability sets
Rejected(cad_objs) == {i \in 1..Len(cad_objs) : cad_objs[i].t = "other"}

\* the sequence s without the elements at the indices in D
RECURSIVE Without(_, _, _)
Without(sq, D, i) ==
    IF i > Len(sq) THEN <<>>
    ELSE (IF i \in D THEN <<>> ELSE <<sq[i]>>) \o Without(sq, D, i + 1)

WithoutOpt(o, D) == IF o = None THEN None ELSE Some(Without(Val(o), D, 1))

IsSkipEvent(e) ==
    e \in {skip_message(args.cad_objs[i],
                        IF args.names = None THEN None
                        ELSE Some(Val(args.names)[i])) :
             i \in Rejected(args.cad_objs)}

NotSkipEvent(e) == ~IsSkipEvent(e)

\* the skip messages a call prints for its own objects, in order
SkipEvents ==
    LET D == Rejected(args.cad_objs)
        all == [i \in 1..Len(args.cad_objs) |->
                   skip_message(args.cad_objs[i],
                                IF args.names = None THEN None
                                ELSE Some(Val(args.names)[i]))]
    IN  Without(all, (1..Len(all)) \ (D \cap Reached(args.cad_objs)), 1)

C13_UnknownTypeFatal ==
    LET d == SelectSeq(Dispatched(args.cad_objs), Raises)
    IN  (pc # "start" /\ ~ArityMismatch /\ Len(d) > 0 /\ IsUnhandled(d[1])) =>
            /\ pc = "raised"
            /\ raised = Some("ValueError: Unknown object type: " \o str(d[1]))
            /\ assembly = None
            /\ meshed_instances = <<>>

\* the second entry of a dict matches no handler, after the first one has
\* been converted and interned
C13_Witness ==
    /\ pc = "raised"
    /\ args.cad_objs[1].t = "dict"
    /\ Len(args.cad_objs[1].items) = 2
    /\ IsUnhandled(args.cad_objs[1].items[2])
    /\ Len(instances) = 1
    /\ assembly = None

\* the outcome the priority chain names for a value: the first predicate it
\* satisfies in the order skip-scalars, skip-unrecognized, list/tuple,
\* compound, dict, assembly, bare shape, location/plane, axis
Chosen(v) ==
    CASE v.t = "scalar" -> "skip"
      [] v.t = "other" -> "skip-unrecognized"
      [] v.t = "list" -> "handle_list_tuple"
      [] v.t = "compound" -> "handle_compound"
      [] v.t = "dict" -> "handle_dict"
      [] v.t = "assembly" -> "handle_build123d_assembly"
      [] v.t = "shape" -> "handle_shapes"
      [] v.t \in {"location", "plane", "gp_plane", "workplane"} ->
            "handle_locations_planes"
      [] v.t \in {"axis", "gp_axis"} -> "handle_axis"
      [] OTHER -> "unknown type"

\* what a call with one object did with it
Outcome ==
    LET v == args.cad_objs[1]
    IN  IF raised = Some("ValueError: Unknown object type: " \o str(v))
        THEN "unknown type"
        ELSE IF raised # None /\ trace = <<>>
        THEN "handle_build123d_assembly"
        ELSE IF trace = <<>> THEN "skip"
        ELSE IF trace[1] = skip_message(v, None) THEN "skip-unrecognized"
        ELSE trace[1]

\* C14: for every value the outcome of the first predicate it satisfies in
\* the fixed order is chosen; every value of the location/plane or the axis
\* predicate reaches its marker handler.
C14_PriorityChain ==
    (pc \in {"converted", "raised"} /\ Len(args.cad_objs) = 1
        /\ args.names = None /\ ~ArityMismatch) =>
        Outcome = Chosen(args.cad_objs[1])

\* C15: converting an assembly gives a group that carries the placement of
\* the assembly and has one child per child of the assembly, in order.
C15_AssemblyConverted ==
    (pc # "start" /\ Len(args.cad_objs) = 1 /\ ~ArityMismatch
        /\ args.cad_objs[1].t = "assembly") =>
        /\ raised \in {None, Some("MeshComputationError")}
        /\ assembly # None
        /\ LET v == args.cad_objs[1]
               g == Val(assembly).group
           IN  /\ g.t = "group"
               /\ g.loc = Some(v.loc)
               /\ g.name = get_name(v.name,
                                    IF args.names = None THEN None
                                    ELSE Some(Val(args.names)[1]),
                                    "Assembly")
               /\ Len(g.objects) = Len(v.items)

\* the Object nodes of a tree, in depth-first order
RECURSIVE Objects(_)
Objects(node) ==
    IF node.t = "group"
    THEN Flatten([i \in 1..Len(node.objects) |-> Objects(node.objects[i])])
    ELSE IF node.t = "object" THEN <<node>> ELSE <<>>

SeqToSet(sq) == {sq[i] : i \in 1..Len(sq)}

\* C16: every Object of the returned tree has exactly one of ref and inline
\* geometry.  An Object of kind face or solid has a ref and a cache id; an
\* Object of kind edge or vertex has its geometry inline, the width 2
\* (edge) or 4 (vertex) and no cache id, and adds nothing to the instance
\* table: the table has one entry per distinct geometry of the solids and
\* faces of the input.
C16_RefOrInline ==
    Returned =>
        /\ \A o \in SeqToSet(Objects(Val(assembly).group)) :
            /\ (o.ref # None) # (o.obj # None)
            /\ o.kind \in {"face", "solid", "edge", "vertex"}
            /\ o.kind \in {"face", "solid"} =>
                    o.ref # None /\ o.cache_id # None
            /\ o.kind \in {"edge", "vertex"} =>
                    /\ o.obj # None /\ o.cache_id = None
                    /\ o.width = Some(IF o.kind = "edge" THEN 2 ELSE 4)
        /\ Len(instances)
             = Cardinality({Normalized(x) :
                              x \in SeqToSet(InputSolids(args.cad_objs))})

\* a shape kept inline (edge or vertex) and a shape that is interned (solid
\* or face) converted by one call: one instance
C16_Witness ==
    /\ pc = "converted"
    /\ Len(instances) = 1
    /\ {o.kind : o \in SeqToSet(Objects(Val(assembly).group))}
         \in {{"edge", "solid"}, {"vertex", "solid"}, {"vertex", "face"}}

\* the shapes among the values, in depth-first order, each with the color
\* given for it by the caller (that of its top-level slot) or None
RECURSIVE InputShapes(_, _)
InputShapes(cad_objs, colors) ==
    Flatten([i \in 1..Len(cad_objs) |->
        LET v == cad_objs[i]
        IN  IF v.t = "shape" THEN <<[v |-> v, explicit |-> colors[i]]>>
            ELSE IF v.t \in {"list", "compound", "dict"}
            THEN InputShapes(v.items, [k \in 1..Len(v.items) |-> colors[i]])
            ELSE <<>>])

\* the color of a leaf by the order of the sources: the color given for the
\* call, else the color attribute of the object, else the default of its
\* kind
ResolvedColor(x) ==
    IF x.explicit # None THEN Val(x.explicit).rgb
    ELSE IF x.v.color # None THEN Val(x.v.color).rgb
    ELSE default_colors(get_kind(x.v.typ)).rgb

\* C17: the color of every leaf, at every depth, is the color given for the
\* call if there is one, else the color attribute of the object, else the
\* default color of its kind.
C17_ColorResolution ==
    Returned =>
        LET leaves == Objects(Val(assembly).group)
            ins == InputShapes(args.cad_objs,
                               IF args.colors = None
                               THEN [i \in 1..Len(args.cad_objs) |-> None]
                               ELSE Val(args.colors))
        IN  /\ Len(leaves) = Len(ins)
            /\ \A k \in 1..Len(leaves) :
                    Val(leaves[k].color).rgb = ResolvedColor(ins[k])

\* C18: when an alpha is given for an object, with or without a color, the
\* alpha of the color of its leaf is the given alpha.
C18_AlphaApplied ==
    (Returned /\ args.alphas # None) =>
        LET leaves == Objects(Val(assembly).group)
            ins == InputShapes(args.cad_objs, Val(args.alphas))
        IN  /\ Len(leaves) = Len(ins)
            /\ \A k \in 1..Len(leaves) :
                    ins[k].explicit # None =>
                        Val(leaves[k].color).a = Val(ins[k].explicit)

MeshFailed == raised = Some("MeshComputationError")

\* C19: when meshing one instance fails, tessellate_group fails as a whole:
\* the call ends with the error, the instances after the failing one are not
\* meshed, the bounding box pass has not run, and a list of meshes is
\* returned only when every instance has been meshed.
C19_MeshFailureFatal ==
    /\ [](MeshFailed =>
            /\ pc = "raised"
            /\ Len(meshed_instances) < Len(Val(assembly).instances)
            /\ trace[Len(trace)] = TessEvent(Len(meshed_instances))
            /\ shapes = Some(collect(Val(assembly).group))
            /\ overall_bb = Some(BoundingBox(None)))
    /\ [](pc = "done" =>
            /\ raised = None
            /\ Len(meshed_instances) = Len(Val(assembly).instances))
    /\ [][~MeshFailed]_vars

\* the first of two instances is meshed, meshing the second one fails
C19_Witness ==
    /\ MeshFailed
    /\ Len(meshed_instances) = 1
    /\ Len(Val(assembly).instances) = 2

----------------------------------------------------------------------------
(* The life of the bb entries: tessellate_group, then combined_bb *)

\* the leaves of a tree of records, in the order of the fold
RECURSIVE Leaves(_)
Leaves(node) ==
    IF node.parts = None THEN <<node>>
    ELSE Flatten([i \in 1..Len(Val(node.parts)) |->
                     Leaves(Val(node.parts)[i])])

\* the group records of a tree
RECURSIVE GroupRecords(_)
GroupRecords(node) ==
    IF node.parts = None THEN <<>>
    ELSE <<node>> \o Flatten([i \in 1..Len(Val(node.parts)) |->
                                 GroupRecords(Val(node.parts)[i])])

HasBB(record) == record.bb # None

----------------------------------------------------------------------------
(* SpecFold: combined_bb on bounded trees whose leaves carry a box or None *)

Box(x, y) == [xmin |-> x, xmax |-> x + 1, ymin |-> y, ymax |-> y + 2,
              zmin |-> 1, zmax |-> 2]

Leaf(bb) == [type |-> "shapes", name |-> "Solid", loc |-> None,
             ref |-> Some(0), bb |-> Some(bb), parts |-> None]

PartsGroup(parts) == [type |-> "group", name |-> "Group", loc |-> None,
                      ref |-> None, bb |-> None, parts |-> Some(parts)]

FoldLeaves == {Leaf(None), Leaf(Some(Box(1, -3))), Leaf(Some(Box(3, 1))),
               Leaf(Some(Box(-2, 1)))}
FoldSubgroups ==
    {PartsGroup(ps) :
        ps \in SeqsUpTo({Leaf(None), Leaf(Some(Box(2, 2)))}, MaxParts)}
FoldTrees ==
    {PartsGroup(ps) : ps \in SeqsUpTo(FoldLeaves \cup FoldSubgroups, MaxParts)}

InitFold ==
    /\ instances = <<>>
    /\ results = <<>>
    /\ Idle /\ NoNames /\ OthersIdle
    /\ fold_in \in {Some(tr) : tr \in FoldTrees}
    /\ fold_out = None

CombinedBB ==
    /\ fold_in # None /\ fold_out = None
    /\ fold_out' = Some(combined_bb(Val(fold_in)))
    /\ UNCHANGED other_vars
    /\ UNCHANGED <<instances, results, pc, args, assembly, meshed_instances,
                   shapes, overall_bb, trace, raised, names_in, names_out,
                   fold_in>>

NextFold == CombinedBB

SpecFold == InitFold /\ [][NextFold]_vars

\* the boxes of the leaves of a tree, in the order of the fold
RECURSIVE TreeBoxes(_)
TreeBoxes(node) ==
    IF node.parts = None
    THEN IF node.bb # None /\ Val(node.bb) # None
         THEN <<Val(Val(node.bb))>> ELSE <<>>
    ELSE Flatten([i \in 1..Len(Val(node.parts)) |->
                     TreeBoxes(Val(node.parts)[i])])

\* C8: combined_bb(shapes) returns a box whose extents are the componentwise
\* min/max over the boxes of all leaves of the tree, also when some leaves
\* (the first one visited, in particular) have no box.
C8_FoldIsUnionOfLeafBoxes ==
    (fold_out # None /\ Len(TreeBoxes(Val(fold_in))) > 0) =>
        /\ Val(fold_out).bb # None
        /\ Extents(Val(Val(fold_out).bb)) = UnionExtents(TreeBoxes(Val(fold_in)))

----------------------------------------------------------------------------
(* SpecNames: make_unique on bounded lists of names *)

NameSet == {"a", "b", "a_1", "a_2"}

InitNames ==
    /\ instances = <<>>
    /\ results = <<>>
    /\ Idle /\ NoFold /\ OthersIdle
    /\ names_in \in {Some(ns) : ns \in SeqsUpTo(NameSet, MaxNames)}
    /\ names_out = None

MakeUnique ==
    /\ names_in # None /\ names_out = None
    /\ names_out' = Some(make_unique(Val(names_in)))
    /\ UNCHANGED other_vars
    /\ UNCHANGED <<instances, results, pc, args, assembly, meshed_instances,
                   shapes, overall_bb, trace, raised, names_in, fold_in,
                   fold_out>>

NextNames == MakeUnique

SpecNames == InitNames /\ [][NextNames]_vars

NumericSuffixes == {"_" \o ToString(k) : k \in 1..MaxNames}

\* C9: after uniquification of any list of names (lists that already hold
\* names of the form <name>_<k> included) all names are pairwise distinct,
\* the first occurrence of each name is unsuffixed, every later occurrence
\* is the name with a numeric suffix, and positions are preserved.
C9_NamesUnique ==
    names_out # None =>
        LET old == Val(names_in)
            new == Val(names_out)
        IN  /\ Len(new) = Len(old)
            /\ \A i, j \in 1..Len(new) : i # j => new[i] # new[j]
            /\ \A i \in 1..Len(old) :
                IF \A j \in 1..(i - 1) : old[j] # old[i]
                THEN new[i] = old[i]
                ELSE new[i] \in {old[i] \o sfx : sfx \in NumericSuffixes}

----------------------------------------------------------------------------
(* SpecUnify: the first part of OcpConverter.unify, which brings the list  *)
(* objs down to one shape, one compound or a list                          *)

MaxElems == 2     \* elements of one TopoDS_Compound, shapes of one objs list

\* a TopoDS_Shape: a TopoDS_Compound with the shapes it holds, or a shape
\* that is no compound
TopoDS(g) == [compound |-> FALSE, g |-> g, elems |-> <<>>]
TopoDS_Compound(elems) == [compound |-> TRUE, g |-> 0, elems |-> elems]

is_topods_compound(topods_shape) == topods_shape.compound
list_topods_compound(compound) == compound.elems
make_compound(objs) == TopoDS_Compound(objs)

\* what unify goes on with: one shape, or a list of shapes
OneShape(o) == [list |-> FALSE, items |-> <<o>>]
ShapeList(objs) == [list |-> TRUE, items |-> objs]

\* lines 210 to 227 of unify: ocp_obj for the arguments objs and kind
unify_ocp_obj(objs, kind) ==
    IF Len(objs) = 1
    THEN LET ocp_obj == objs[1]
         IN  IF is_topods_compound(ocp_obj)
             THEN LET ocp_objs == list_topods_compound(ocp_obj)
                  IN  IF Len(ocp_objs) = 1 THEN OneShape(ocp_objs[1])
                      ELSE IF kind \in {"edge", "vertex"}
                      THEN ShapeList(ocp_objs)
                      ELSE OneShape(ocp_obj)
             ELSE OneShape(ocp_obj)
    ELSE IF kind \in {"solid", "face", "shell"}
    THEN OneShape(make_compound(objs))
    ELSE ShapeList(objs)

Kinds == {"solid", "face", "shell", "edge", "vertex"}
PlainShapes == {TopoDS(g) : g \in 1..(NGeom + 1)}
UnifyShapes ==
    PlainShapes
        \cup {TopoDS_Compound(e) : e \in SeqsFrom0(PlainShapes, MaxElems)}

InitUnify ==
    /\ instances = <<>>
    /\ results = <<>>
    /\ Idle /\ NoNames /\ NoFold /\ NoRace /\ NoUpdate /\ NoCache
    /\ unify_in \in {Some([objs |-> objs, kind |-> kind]) :
                        objs \in SeqsUpTo(UnifyShapes, MaxElems),
                        kind \in Kinds}
    /\ unify_out = None

Unify ==
    /\ unify_in # None /\ unify_out = None
    /\ unify_out' = Some(unify_ocp_obj(Val(unify_in).objs, Val(unify_in).kind))
    /\ UNCHANGED <<instances, results, pc, args, assembly, meshed_instances,
                   shapes, overall_bb, trace, raised, names_in, names_out,
                   fold_in, fold_out, unify_in, race, update_in, update_out,
                   cache, bb_calls>>

NextUnify == Unify

SpecUnify == InitUnify /\ [][NextUnify]_vars

\* C22: unify on a single compound explodes it into its elements.  For the
\* kinds vertex and edge the result is the list of the elements, also when
\* there is exactly one element; for the other kinds one element is taken
\* as it is and several elements stay one compound.  Several shapes of kind
\* face, shell or solid end up as one compound; several edges or vertices
\* stay a list and are never merged into one compound.
C22_UnifyCompound ==
    unify_out # None =>
        LET objs == Val(unify_in).objs
            kind == Val(unify_in).kind
            out == Val(unify_out)
        IN  IF Len(objs) = 1 /\ objs[1].compound
            THEN IF kind \in {"edge", "vertex"}
                 THEN out = ShapeList(objs[1].elems)
                 ELSE IF Len(objs[1].elems) = 1
                 THEN out = OneShape(objs[1].elems[1])
                 ELSE out = OneShape(objs[1])
            ELSE IF Len(objs) > 1
            THEN IF kind \in {"edge", "vertex"}
                 THEN out = ShapeList(objs)
                 ELSE out = OneShape(TopoDS_Compound(objs))
            ELSE out = OneShape(objs[1])

----------------------------------------------------------------------------
(* SpecRace: get_instance calls of several threads on one converter *)

NThreads == 2

Threads == 1..NThreads
RaceSolids == {[g |-> g, loc |-> l] :
                  g \in Geoms, l \in {identity_location, [a |-> -1, t |-> Step]}}

\* the first half of get_instance: the placement is removed and the table is
\* searched.  The loop sees an entry that is appended while it runs, and an
\* early hit stays a hit, so one search of the table as it is when the loop
\* ends gives every outcome of the loop.
scan_instances(table, obj) ==
    LET loc == obj.loc
        obj2 == Normalized(obj)
    IN  [loc |-> loc, obj2 |-> obj2, hit |-> find_instance(table, obj2, 1)]

\* a get_instance call: its position, its argument, what its search found
\* (hit, 0 for nothing), the ref it took and the index it appended at
ThreadStart == [pc |-> "start", obj |-> None, obj2 |-> None, hit |-> 0,
                ref |-> None, at |-> None]

InitRace ==
    /\ instances = <<>>
    /\ results = <<>>
    /\ Idle /\ NoNames /\ NoFold /\ NoUnify /\ NoUpdate /\ NoCache
    /\ race \in {Some([atomic |-> b, th |-> [t \in Threads |-> ThreadStart]]) :
                    b \in BOOLEAN}

RaceUnchanged ==
    UNCHANGED <<results, pc, args, assembly, meshed_instances, shapes,
                overall_bb, trace, raised, names_in, names_out, fold_in,
                fold_out, unify_in, unify_out, update_in, update_out, cache,
                bb_calls>>

\* the loop over self.instances
Scan(t, obj) ==
    /\ ~Val(race).atomic
    /\ Val(race).th[t].pc = "start"
    /\ LET r == scan_instances(instances, obj)
       IN  race' = Some([Val(race) EXCEPT !.th[t] =
                      [pc |-> IF r.hit > 0 THEN "done" ELSE "scanned",
                       obj |-> Some(obj), obj2 |-> Some(r.obj2), hit |-> r.hit,
                       ref |-> IF r.hit > 0 THEN Some(r.hit - 1) ELSE None,
                       at |-> None]])
    /\ UNCHANGED instances
    /\ RaceUnchanged

\* ref = len(self.instances)
ReadLen(t) ==
    /\ ~Val(race).atomic
    /\ Val(race).th[t].pc = "scanned"
    /\ race' = Some([Val(race) EXCEPT !.th[t].pc = "len_read",
                                      !.th[t].ref = Some(Len(instances))])
    /\ UNCHANGED instances
    /\ RaceUnchanged

\* an append of the shape as it was passed, its placement kept
AppendInstance_placed(t) ==
    /\ ~Val(race).atomic
    /\ Val(race).th[t].pc = "len_read"
    /\ instances' = Append(instances,
                        <<Val(Val(race).th[t].obj),
                          create_cache_id(<<Val(Val(race).th[t].obj)>>)>>)
    /\ race' = Some([Val(race) EXCEPT !.th[t].pc = "done",
                                      !.th[t].at = Some(Len(instances))])
    /\ RaceUnchanged

\* self.instances.append((obj2, cache_id))
AppendInstance(t) ==
    /\ ~Val(race).atomic
    /\ Val(race).th[t].pc = "len_read"
    /\ instances' = Append(instances,
                        <<Val(Val(race).th[t].obj2),
                          create_cache_id(<<Val(Val(race).th[t].obj)>>)>>)
    /\ race' = Some([Val(race) EXCEPT !.th[t].pc = "done",
                                      !.th[t].at = Some(Len(instances))])
    /\ RaceUnchanged

\* get_instance as one step (a critical section around the whole call)
AtomicGetInstance(t, obj) ==
    /\ Val(race).atomic
    /\ Val(race).th[t].pc = "start"
    /\ LET r == get_instance(instances, obj, "solid", "Solid", None,
                             create_cache_id(<<obj>>))
       IN  /\ instances' = r.instances
           /\ race' = Some([Val(race) EXCEPT !.th[t] =
                         [pc |-> "done", obj |-> Some(obj),
                          obj2 |-> Some(Normalized(obj)),
                          hit |-> IF r.is_instance
                                  THEN Val(r.ocp_obj.ref) + 1 ELSE 0,
                          ref |-> r.ocp_obj.ref,
                          at |-> IF r.is_instance THEN None
                                 ELSE Some(Len(instances))]])
    /\ RaceUnchanged

NextRace ==
    \E t \in Threads :
        \/ \E obj \in RaceSolids : Scan(t, obj)
        \/ ReadLen(t)
        \/ AppendInstance(t)
        \/ \E obj \in RaceSolids : AtomicGetInstance(t, obj)

SpecRace == InitRace /\ [][NextRace]_vars

\* two finished calls for equal geometry whose searches both found nothing
Raced(t1, t2) ==
    LET th == Val(race).th
    IN  /\ t1 # t2
        /\ th[t1].pc = "done" /\ th[t2].pc = "done"
        /\ th[t1].obj2 = th[t2].obj2
        /\ th[t1].hit = 0 /\ th[t2].hit = 0

\* C24: when the search and the append of get_instance are separate steps
\* and two calls for equal geometry both search before either appends, both
\* append: the table holds their geometry at two different indices, and the
\* calls return different refs when neither read the length of the table
\* before an append of another call.  When each call is one atomic step, no
\* two entries of the table hold equal geometry, in whatever order the calls
\* run.
C24_SingleWriterOnly ==
    LET th == Val(race).th
    IN  /\ Val(race).atomic =>
               \A i, j \in DOMAIN instances :
                   i # j => instances[i][1] # instances[j][1]
        /\ ~Val(race).atomic =>
               \A t1, t2 \in Threads :
                   Raced(t1, t2) =>
                       /\ Val(th[t1].at) # Val(th[t2].at)
                       /\ instances[Val(th[t1].at) + 1][1] = Val(th[t1].obj2)
                       /\ instances[Val(th[t2].at) + 1][1] = Val(th[t1].obj2)
                       /\ (th[t1].ref = th[t1].at /\ th[t2].ref = th[t2].at)
                              => th[t1].ref # th[t2].ref

\* two calls for one geometry at two placements have raced: the table holds
\* the geometry twice and the calls returned the refs 0 and 1
C24_Witness ==
    /\ ~Val(race).atomic
    /\ Len(instances) = 2
    /\ instances[1][1] = instances[2][1]
    /\ \E t1, t2 \in Threads :
           /\ Raced(t1, t2)
           /\ Val(race).th[t1].obj # Val(race).th[t2].obj
           /\ Val(race).th[t1].ref = Some(0)
           /\ Val(race).th[t2].ref = Some(1)

----------------------------------------------------------------------------
(* SpecUpdate: one call of BoundingBox.update *)

\* update(bb, minimize) for any argument: a BoundingBox and a dict are merged
\* into self, anything else ends in the raise of a str, which is a TypeError,
\* before self is touched
update_call(self, bb, minimize) ==
    IF bb.t \in {"BoundingBox", "dict"}
    THEN [self |-> update(self, bb.v, minimize), raised |-> None]
    ELSE [self |-> self,
          raised |-> Some("TypeError: exceptions must derive from BaseException")]

\* intervals <<min, max>>: nested, overlapping and disjoint pairs
Intervals == {<<0, 2>>, <<1, 2>>, <<1, 5>>, <<3, 4>>, <<-2, 1>>}
YIntervals == {<<0, 2>>, <<-1, 3>>}

ExtentsOf(x, y) == [xmin |-> x[1], xmax |-> x[2], ymin |-> y[1],
                    ymax |-> y[2], zmin |-> 1, zmax |-> 2]

\* an argument without extents carries an empty record
NoExtents == [none |-> TRUE]

\* the arguments of update: a BoundingBox, a dict, None and a number
UpdateArgs ==
    {[t |-> "BoundingBox", v |-> calc(ExtentsOf(x, y))] :
        x \in Intervals, y \in YIntervals}
    \cup {[t |-> "dict", v |-> ExtentsOf(x, y)] :
             x \in Intervals, y \in YIntervals}
    \cup {[t |-> tn, v |-> NoExtents] : tn \in {"NoneType", "int"}}

InitUpdate ==
    /\ instances = <<>>
    /\ results = <<>>
    /\ Idle /\ NoNames /\ NoFold /\ NoUnify /\ NoRace /\ NoCache
    /\ update_in \in {Some([self |-> BoundingBox(Some(ExtentsOf(x, y))),
                             bb |-> bb, minimize |-> m]) :
                          x \in Intervals, y \in YIntervals,
                          bb \in UpdateArgs, m \in BOOLEAN}
    /\ update_out = None

Update ==
    /\ update_in # None /\ update_out = None
    /\ update_out' = Some(update_call(Val(update_in).self, Val(update_in).bb,
                                      Val(update_in).minimize))
    /\ UNCHANGED <<instances, results, pc, args, assembly, meshed_instances,
                   shapes, overall_bb, trace, raised, names_in, names_out,
                   fold_in, fold_out, unify_in, unify_out, race, update_in,
                   cache, bb_calls>>

NextUpdate == Update

SpecUpdate == InitUpdate /\ [][NextUpdate]_vars

XInterval(b) == <<b.xmin, b.xmax>>
YInterval(b) == <<b.ymin, b.ymax>>
ZInterval(b) == <<b.zmin, b.zmax>>
Width(iv) == iv[2] - iv[1]

\* the interval spanning both, and the narrower of two intervals
Wider(i1, i2) == <<Min2(i1[1], i2[1]), Max2(i1[2], i2[2])>>
IsNarrower(iv, i1, i2) ==
    /\ iv \in {i1, i2}
    /\ Width(iv) = Min2(Width(i1), Width(i2))

IsBoxArg(bb) == bb.t \in {"BoundingBox", "dict"}

\* the parts of C25
MergedWider ==
    LET i == Val(update_in)
        o == Val(update_out).self
    IN  /\ XInterval(o) = Wider(XInterval(i.self), XInterval(i.bb.v))
        /\ YInterval(o) = Wider(YInterval(i.self), YInterval(i.bb.v))
        /\ ZInterval(o) = Wider(ZInterval(i.self), ZInterval(i.bb.v))

MergedNarrower ==
    LET i == Val(update_in)
        o == Val(update_out).self
    IN  /\ IsNarrower(XInterval(o), XInterval(i.self), XInterval(i.bb.v))
        /\ IsNarrower(YInterval(o), YInterval(i.self), YInterval(i.bb.v))
        /\ IsNarrower(ZInterval(o), ZInterval(i.self), ZInterval(i.bb.v))

DerivedRecomputed ==
    LET o == Val(update_out).self
    IN  /\ o.xsize = o.xmax - o.xmin
        /\ o.ysize = o.ymax - o.ymin
        /\ o.zsize = o.zmax - o.zmin
        /\ o.center = <<o.xmin + o.xmax, o.ymin + o.ymax, o.zmin + o.zmax>>
        /\ \A e \in {o.xmin, o.xmax, o.ymin, o.ymax, o.zmin, o.zmax} :
               Abs(e) <= o.max
        /\ \E e \in {o.xmin, o.xmax, o.ymin, o.ymax, o.zmin, o.zmax} :
               Abs(e) = o.max

SelfMergeNoOp ==
    LET i == Val(update_in)
    IN  Extents(i.bb.v) = Extents(i.self) => Val(update_out).self = i.self

Rejected_unchanged ==
    /\ Val(update_out).raised # None
    /\ Val(update_out).self = Val(update_in).self

\* C25: update(bb, minimize) with a box or a record bb sets, per axis, the
\* minimum to the smaller and the maximum to the larger of the two boxes when
\* minimize is false, and takes the narrower of the two intervals when
\* minimize is true; size, center and max match the new extents; a merge of
\* a box with itself changes nothing; any other argument raises an error and
\* leaves the box as it was.
C25_Update ==
    update_out # None =>
        IF IsBoxArg(Val(update_in).bb)
        THEN /\ Val(update_out).raised = None
             /\ IF Val(update_in).minimize THEN MergedNarrower ELSE MergedWider
             /\ DerivedRecomputed
             /\ SelfMergeNoOp
        ELSE Rejected_unchanged

----------------------------------------------------------------------------
(* SpecCache: the memoized bounding_box *)

\* the upper bound of the hash codes, scaled down from 2147483647 so that
\* two of the shapes below share a hash code
MAX_HASH_KEY == 3

\* TopoDS_Shape.HashCode(upper): a value in 1..upper computed from the
\* TShape and the placement
HashCode(s, upper) ==
    ((s.g * 5 + s.loc.t + (IF s.loc.a = 1 THEN 0 ELSE 1)) % upper) + 1

\* loc_to_tq(loc): the translation and the rotation of loc
loc_to_tq(loc) ==
    IF loc = None THEN <<None, None>>
    ELSE << <<Val(loc).t, 0, 0>>, <<Val(loc).a>> >>

\* make_key(objs, loc, optimal): optimal is not part of the key; one shape
\* is keyed like the list that holds it
make_key(objs, loc, optimal) ==
    <<[i \in 1..Len(objs.items) |-> HashCode(objs.items[i], MAX_HASH_KEY)],
      loc_to_tq(loc)>>

\* BoundingBox._bounding_box for the shapes of a compound: BRepBndLib.Add_s
\* gives a box that may be too large (by g - 1 on every side for the
\* geometry g), BRepBndLib.AddOptimal_s the box of the geometry
bounding_box_extents(elems, optimal) ==
    LET box(i) == Val(np_bbox(vertices_of(elems[i]), Some(elems[i].loc)))
        slack(i) == IF optimal THEN 0 ELSE elems[i].g - 1
        n == Len(elems)
    IN  [xmin |-> SeqMin([i \in 1..n |-> box(i).xmin - slack(i)]),
         xmax |-> SeqMax([i \in 1..n |-> box(i).xmax + slack(i)]),
         ymin |-> SeqMin([i \in 1..n |-> box(i).ymin - slack(i)]),
         ymax |-> SeqMax([i \in 1..n |-> box(i).ymax + slack(i)]),
         zmin |-> SeqMin([i \in 1..n |-> box(i).zmin - slack(i)]),
         zmax |-> SeqMax([i \in 1..n |-> box(i).zmax + slack(i)])]

\* the body of bounding_box: the box of the shape, or of the compound of the
\* shapes, moved by loc
bounding_box_wrapped(objs, loc, optimal) ==
    LET moved == [i \in 1..Len(objs.items) |->
                     IF loc = None THEN objs.items[i]
                     ELSE Moved(objs.items[i], Val(loc))]
    IN  BoundingBox(Some(bounding_box_extents(moved, optimal)))

\* @cached(cache, key=make_key): the entry of the key if there is one, else
\* the body is run and its result is stored under the key
bounding_box(c, objs, loc, optimal) ==
    LET k == make_key(objs, loc, optimal)
    IN  IF \E e \in c : e.k = k
        THEN [cache |-> c, result |-> (CHOOSE e \in c : e.k = k).v]
        ELSE LET v == bounding_box_wrapped(objs, loc, optimal)
             IN  [cache |-> c \cup {[k |-> k, v |-> v]}, result |-> v]

CacheShapes == {[g |-> g, loc |-> l] :
                   g \in Geoms, l \in {identity_location, [a |-> 1, t |-> Step]}}
CacheObjs ==
    {OneShape(sh) : sh \in CacheShapes}
    \cup {ShapeList(<<[g |-> 1, loc |-> identity_location],
                      [g |-> NGeom, loc |-> [a |-> 1, t |-> Step]]>>)}
CacheLocs == {None, Some([a |-> 1, t |-> Step])}

InitCache ==
    /\ instances = <<>>
    /\ results = <<>>
    /\ Idle /\ NoNames /\ NoFold /\ NoUnify /\ NoRace /\ NoUpdate
    /\ cache = {}
    /\ bb_calls = <<>>

\* one call of bounding_box, as tessellate_group makes it per instance with
\* loc=None and optimal=False, or any other caller with other arguments
BoundingBoxCall(objs, loc, optimal) ==
    /\ Len(bb_calls) < MaxCalls
    /\ LET r == bounding_box(cache, objs, loc, optimal)
       IN  /\ cache' = r.cache
           /\ bb_calls' = Append(bb_calls,
                   [objs |-> objs, loc |-> loc, optimal |-> optimal,
                    result |-> r.result])
    /\ UNCHANGED <<instances, results, pc, args, assembly, meshed_instances,
                   shapes, overall_bb, trace, raised, names_in, names_out,
                   fold_in, fold_out, unify_in, unify_out, race, update_in,
                   update_out>>

NextCache ==
    \E objs \in CacheObjs, loc \in CacheLocs, optimal \in BOOLEAN :
        BoundingBoxCall(objs, loc, optimal)

SpecCache == InitCache /\ [][NextCache]_vars

\* C26: every bounding_box call returns the box that the body of
\* bounding_box computes for its arguments objs, loc and optimal, whatever
\* calls were made before it.
C26_CacheTransparent ==
    \A i \in DOMAIN bb_calls :
        bb_calls[i].result =
            bounding_box_wrapped(bb_calls[i].objs, bb_calls[i].loc,
                                 bb_calls[i].optimal)

====
